---- MODULE Spec2Model ----
(***************************************************************************)
(* Round-to-nearest weight-only quantization (neural_compressor/torch/     *)
(* algorithms/rtn.py): the codecs, the group partitioner, the clip search, *)
(* the bit-packing store WeightOnlyLinear and the driver rtn_quantize.     *)
(*                                                                         *)
(* Real numbers are exact extended rationals <<n, d>>: d > 0 is n/d in     *)
(* lowest terms, <<1,0>> is +inf, <<-1,0>> is -inf and <<0,0>> is NaN.     *)
(* Storage words are sequences of bits, least significant bit first, so    *)
(* that 8, 16, 32 and 64 bit words are all computed exactly.               *)
(***************************************************************************)
EXTENDS Integers, Sequences, FiniteSets, TLC

VARIABLES store,    \* the WeightOnlyLinear instance (its buffers and parameters)
          result,   \* outcome of the last operation on the store
          lastPack, \* arguments of the last pack call ("none" before any)
          lastRec,  \* what recover() returned since the last pack
          npacks,   \* number of pack calls made on the store
          nok,      \* number of pack calls that completed
          cin,      \* arguments of the quant_weight call
          cout,     \* what quant_weight returned
          clip,     \* search_clip: locals of the grid search
          drv       \* rtn_quantize: locals of the loop over the layers

vars == <<store, result, lastPack, lastRec, npacks, nok, cin, cout, clip, drv>>

(***************************************************************************)
(* Bounds of the model.                                                    *)
(***************************************************************************)
MaxOut == 2      \* out_features ranges over 1..MaxOut
MaxIn == 3       \* in_features ranges over 1..MaxIn
MaxPacks == 2    \* pack calls on one store
MaxW == 2        \* weights range over -MaxW..MaxW
MaxLayers == 2   \* linear layers of the model given to rtn_quantize

\* Python's optional values: None, or a value
None == [some |-> FALSE]
Some(v) == [some |-> TRUE, val |-> v]

(***************************************************************************)
(* Integer helpers.                                                        *)
(***************************************************************************)
RECURSIVE Pow2(_)
Pow2(k) == IF k <= 0 THEN 1 ELSE 2 * Pow2(k - 1)

Abs(x) == IF x < 0 THEN -x ELSE x
Sgn(x) == IF x < 0 THEN -1 ELSE IF x > 0 THEN 1 ELSE 0
Min(a, b) == IF a <= b THEN a ELSE b
Max(a, b) == IF a >= b THEN a ELSE b

RECURSIVE GCD(_, _)
GCD(a, b) == IF b = 0 THEN a ELSE GCD(b, a % b)

\* math.ceil(a / b) for positive integers
CeilDiv(a, b) == (a + b - 1) \div b

(***************************************************************************)
(* Extended rationals: the float arithmetic of the tensors, kept exact.    *)
(***************************************************************************)
Rat(n, d) ==
    IF d = 0 THEN <<Sgn(n), 0>>
    ELSE LET g == GCD(Abs(n), Abs(d))
         IN  <<Sgn(d) * (n \div g), Abs(d) \div g>>

RInt(i) == <<i, 1>>
RNaN == <<0, 0>>
RInf == <<1, 0>>
IsNaN(a) == a[1] = 0 /\ a[2] = 0
IsFinite(a) == a[2] # 0

RMul(a, b) == Rat(a[1] * b[1], a[2] * b[2])
RDiv(a, b) == Rat(a[1] * b[2], a[2] * b[1])
RNeg(a) == <<-a[1], a[2]>>
RAbs(a) == <<Abs(a[1]), a[2]>>

RAdd(a, b) ==
    IF IsFinite(a) /\ IsFinite(b)
    THEN LET g == GCD(a[2], b[2])
         IN  Rat(a[1] * (b[2] \div g) + b[1] * (a[2] \div g), (a[2] \div g) * b[2])
    ELSE IF IsNaN(a) \/ IsNaN(b) THEN RNaN
    ELSE IF ~IsFinite(a) /\ ~IsFinite(b) THEN (IF a = b THEN a ELSE RNaN)
    ELSE IF IsFinite(a) THEN b ELSE a

RSub(a, b) == RAdd(a, RNeg(b))

\* a < b as IEEE compares: false whenever a NaN is involved
RLess(a, b) ==
    IF IsNaN(a) \/ IsNaN(b) THEN FALSE
    ELSE IF IsFinite(a) /\ IsFinite(b)
    THEN LET g == GCD(a[2], b[2])
         IN  a[1] * (b[2] \div g) < b[1] * (a[2] \div g)
    ELSE IF ~IsFinite(a) /\ ~IsFinite(b) THEN a[1] < b[1]
    ELSE IF IsFinite(a) THEN b[1] > 0 ELSE a[1] < 0

RLeq(a, b) == RLess(a, b) \/ (~IsNaN(a) /\ a = b)
RMinOf(a, b) == IF RLess(b, a) THEN b ELSE a
RMaxOf(a, b) == IF RLess(a, b) THEN b ELSE a

\* torch.round: to the nearest integer, halves to the even one
RRound(a) ==
    IF ~IsFinite(a) THEN a
    ELSE LET fl  == a[1] \div a[2]
             rem == a[1] % a[2]
         IN  IF 2 * rem < a[2] THEN RInt(fl)
             ELSE IF 2 * rem > a[2] THEN RInt(fl + 1)
             ELSE IF fl % 2 = 0 THEN RInt(fl) ELSE RInt(fl + 1)

\* no clamp at all
Unclamped(a, lo, hi) == a

\* torch.clamp(x, lo, hi) with integer bounds; a NaN stays a NaN
RClamp(a, lo, hi) ==
    IF IsNaN(a) THEN a
    ELSE IF RLess(a, RInt(lo)) THEN RInt(lo)
    ELSE IF RLess(RInt(hi), a) THEN RInt(hi)
    ELSE a

(***************************************************************************)
(* Matrices are sequences of rows.                                         *)
(***************************************************************************)
NRows(M) == Len(M)
NCols(M) == IF Len(M) = 0 THEN 0 ELSE Len(M[1])
Shape(M) == <<NRows(M), NCols(M)>>
Transpose(M) == [c \in 1..NCols(M) |-> [r \in 1..NRows(M) |-> M[r][c]]]
Fill(R, C, v) == [r \in 1..R |-> [c \in 1..C |-> v]]

\* row[lo:hi] of Python (0-based, hi exclusive), clipped at the row's end
Slice(row, lo, hi) ==
    IF lo >= Min(hi, Len(row)) THEN <<>> ELSE SubSeq(row, lo + 1, Min(hi, Len(row)))

(***************************************************************************)
(* Code tables of the non-uniform 4-bit codecs.  The NF4 floats are kept   *)
(* to four decimals (-0.6961928009986877 is -6962/10000); the FP4 floats   *)
(* are exact.                                                              *)
(***************************************************************************)
NF4 == << Rat(-1, 1), Rat(-6962, 10000), Rat(-5251, 10000), Rat(-3949, 10000),
          Rat(-2844, 10000), Rat(-1848, 10000), Rat(-911, 10000), Rat(0, 1),
          Rat(796, 10000), Rat(1609, 10000), Rat(2461, 10000), Rat(3379, 10000),
          Rat(4407, 10000), Rat(5626, 10000), Rat(7230, 10000), Rat(1, 1) >>
FP4_BNB == << Rat(-12, 1), Rat(-8, 1), Rat(-6, 1), Rat(-4, 1), Rat(-3, 1), Rat(-2, 1),
              Rat(-1, 16), Rat(0, 1), Rat(1, 16), Rat(2, 1), Rat(3, 1), Rat(4, 1),
              Rat(6, 1), Rat(8, 1), Rat(12, 1) >>
FP4_E2M1 == << Rat(-6, 1), Rat(-4, 1), Rat(-3, 1), Rat(-2, 1), Rat(-3, 2), Rat(-1, 1),
               Rat(-1, 16), Rat(0, 1), Rat(1, 16), Rat(1, 1), Rat(3, 2), Rat(2, 1),
               Rat(3, 1), Rat(4, 1), Rat(6, 1) >>

NF4_BIT == <<7, 1, 2, 3, 4, 5, 6, 0, -8, -7, -6, -5, -4, -3, -2, -1>>
FP4_BNB_BIT == <<-5, -6, -3, -4, -1, -2, -7, 0, 1, 6, 7, 4, 5, 2, 3>>
FP4_E2M1_BIT == <<-1, -2, -3, -4, -5, -6, -7, 0, 1, 2, 3, 4, 5, 6, 7>>

MappedTags == {"nf4", "fp4", "fp4_e2m1_bnb", "fp4_e2m1"}

FLOAT_MAPPING(t) ==
    CASE t = "nf4" -> NF4
      [] t = "fp4" -> FP4_BNB
      [] t = "fp4_e2m1_bnb" -> FP4_BNB
      [] t = "fp4_e2m1" -> FP4_E2M1

INT_MAPPING(t) ==
    CASE t = "nf4" -> NF4_BIT
      [] t = "fp4" -> FP4_BNB_BIT
      [] t = "fp4_e2m1_bnb" -> FP4_BNB_BIT
      [] t = "fp4_e2m1" -> FP4_E2M1_BIT

\* the test '"int" in data_type' on the tags of the model
HasInt(t) == t \in {"int", "uint8"}

(***************************************************************************)
(* The codecs.  A codec works row by row; for a row it gives                *)
(*   scale : the row's scale,   zp : the row's zero point (asym only),      *)
(*   q     : the quantized values before the cast to int8/uint8,            *)
(*   deq   : the float output, the quantized values dequantized.            *)
(***************************************************************************)
RECURSIVE RowMinFrom(_, _)
RowMinFrom(row, i) ==
    IF i = Len(row) THEN row[i] ELSE RMinOf(row[i], RowMinFrom(row, i + 1))
RECURSIVE RowMaxFrom(_, _)
RowMaxFrom(row, i) ==
    IF i = Len(row) THEN row[i] ELSE RMaxOf(row[i], RowMaxFrom(row, i + 1))
\* weight.min(1)[0] and weight.max(1)[0] for one row
RowMin(row) == RowMinFrom(row, 1)
RowMax(row) == RowMaxFrom(row, 1)

\* qdq_weight_asym, lines 116-118: an all-zero range becomes [-1, 1]
AsymRange(wmin0, wmax0) ==
    IF wmin0 = RInt(0) /\ wmax0 = RInt(0) THEN [wmin |-> RInt(-1), wmax |-> RInt(1)]
    ELSE [wmin |-> wmin0, wmax |-> wmax0]

\* qdq_weight_asym, line 119: scale = (wmax - wmin) / maxq
AsymScaleOf(range, maxq) ==
    [scale |-> RDiv(RSub(range.wmax, range.wmin), RInt(maxq)), wmin |-> range.wmin]

\* qdq_weight_asym, lines 110-119: the scale of a row, with the wmin it used
AsymScale(row, num_bits, quantile) ==
    AsymScaleOf(AsymRange(RMul(RMinOf(RowMin(row), RInt(0)), quantile),
                          RMul(RMaxOf(RowMax(row), RInt(0)), quantile)),
                Pow2(num_bits) - 1)

\* qdq_weight_asym, lines 124-126: what is returned for scale, zp and q
AsymRowOut(scale, zp, q) ==
    [ scale |-> scale, zp |-> Some(zp), q |-> q,
      deq   |-> [c \in 1..Len(q) |-> RMul(scale, RSub(q[c], zp))] ]

\* qdq_weight_asym, line 123: q = clamp(round(weight / scale) + zp, 0, maxq)
AsymRowWith(row, scale, zp, maxq) ==
    AsymRowOut(scale, zp,
               [c \in 1..Len(row) |->
                   RClamp(RAdd(RRound(RDiv(row[c], scale)), zp), 0, maxq)])

\* qdq_weight_asym, line 120: zp = round(-wmin / scale)
AsymRowOf(row, p, maxq) ==
    AsymRowWith(row, p.scale, RRound(RDiv(RNeg(p.wmin), p.scale)), maxq)

\* qdq_weight_asym for one row
AsymRow(row, num_bits, quantile) ==
    AsymRowOf(row, AsymScale(row, num_bits, quantile), Pow2(num_bits) - 1)

\* qdq_weight_sym, lines 148-152: the bounds [minq, maxq]
SymMaxq(num_bits) == IF num_bits = 1 THEN Pow2(num_bits - 1) ELSE Pow2(num_bits - 1) - 1
SymMinq(num_bits) == IF num_bits = 1 THEN Pow2(num_bits - 1) - 1 ELSE -Pow2(num_bits - 1)

\* the flag of the docstring, lines 140-141: abs(min) > abs(max)
FlipFlagOfDocstring(max_val, min_val) == RLess(RAbs(max_val), RAbs(min_val))

\* qdq_weight_sym, line 155
FlipFlag(max_val, min_val) == RLess(RAbs(min_val), RAbs(max_val))

\* a wmax that stays 0 for an all-zero row
WmaxUnguarded(wmax0) == wmax0

\* qdq_weight_sym, lines 158-159: wmax[wmax == 0] = 1
SymWmax(wmax0) == IF wmax0 = RInt(0) THEN RInt(1) ELSE wmax0

\* qdq_weight_sym, lines 162-164: the full-range scale, negated under flip_flag
SymFullRange(scale, flip_flag) ==
    RSub(scale, RMul(RInt(2), RMul(scale, RInt(IF flip_flag THEN 1 ELSE 0))))

\* qdq_weight_sym, lines 160-166
SymScaleWith(wmax, flip_flag, num_bits, full_range) ==
    IF full_range THEN SymFullRange(RDiv(wmax, RInt(-SymMinq(num_bits))), flip_flag)
    ELSE RDiv(wmax, RInt(SymMaxq(num_bits)))

\* qdq_weight_sym, lines 155-159
SymScaleOf(max_val, min_val, num_bits, quantile, full_range) ==
    SymScaleWith(SymWmax(RMul(RMaxOf(RAbs(max_val), RAbs(min_val)), quantile)),
                 FlipFlag(max_val, min_val), num_bits, full_range)

\* qdq_weight_sym, lines 153-166: the scale of a row
SymScale(row, num_bits, quantile, full_range) ==
    SymScaleOf(RowMax(row), RowMin(row), num_bits, quantile, full_range)

\* qdq_weight_sym, lines 169-171: what is returned for scale and q
SymRowOut(scale, q) ==
    [ scale |-> scale, zp |-> None, q |-> q,
      deq   |-> [c \in 1..Len(q) |-> RMul(scale, q[c])] ]

\* qdq_weight_sym, line 168: q = clamp(round(weight / scale), minq, maxq)
SymRowOf(row, scale, num_bits) ==
    SymRowOut(scale,
              [c \in 1..Len(row) |->
                  RClamp(RRound(RDiv(row[c], scale)), SymMinq(num_bits),
                         SymMaxq(num_bits))])

\* qdq_weight_sym for one row
SymRow(row, num_bits, quantile, full_range) ==
    SymRowOf(row, SymScale(row, num_bits, quantile, full_range), num_bits)

\* quantize_4bit, line 79: the scale of a row
Scale4bit(row, quantile, data_type) ==
    RDiv(RMul(RMaxOf(RAbs(RowMax(row)), RAbs(RowMin(row))), quantile),
         RowMax(FLOAT_MAPPING(data_type)))

\* quantize_4bit, lines 82-91: the index (from 1) of the level t falls to, 0
\* when no comparison holds (t is a NaN)
Bucket(t, allow_data) ==
    LET n      == Len(allow_data)
        mid(i) == RDiv(RAdd(allow_data[i], allow_data[i + 1]), RInt(2))
        hit(i) == IF i = 1 THEN RLeq(t, mid(1))
                  ELSE IF i = n THEN RLess(mid(n - 1), t)
                  ELSE RLess(mid(i - 1), t) /\ RLeq(t, mid(i))
        hits   == {i \in 1..n : hit(i)}
    IN  IF hits = {} THEN 0 ELSE CHOOSE i \in hits : TRUE

\* quantize_4bit, lines 82-94: the code indices and the floats of the buckets b
Row4bitOut(scale, b, allow_data, allow_data_bit) ==
    [ scale |-> scale, zp |-> None,
      q     |-> [c \in 1..Len(b) |->
                    IF b[c] = 0 THEN RInt(0) ELSE RInt(allow_data_bit[b[c]])],
      deq   |-> [c \in 1..Len(b) |->
                    RMul(IF b[c] = 0 THEN RInt(0) ELSE allow_data[b[c]], scale)] ]

\* quantize_4bit, lines 81-91: the bucket of each weight / scale
Row4bitOf(row, scale, allow_data, allow_data_bit) ==
    Row4bitOut(scale, [c \in 1..Len(row) |-> Bucket(RDiv(row[c], scale), allow_data)],
               allow_data, allow_data_bit)

\* quantize_4bit for one row
Row4bit(row, quantile, data_type) ==
    Row4bitOf(row, Scale4bit(row, quantile, data_type), FLOAT_MAPPING(data_type),
              INT_MAPPING(data_type))

\* qdq_weight_actor, lines 189-195: which codec the parameters select
Selected(num_bits, scheme, data_type) ==
    IF ~HasInt(data_type) /\ num_bits = 4 THEN "4bit"
    ELSE IF scheme = "sym" THEN "sym" ELSE "asym"

\* qdq_weight_actor: the rows of weight, each through the selected codec; the
\* assertions of lines 189 and 75 end the call in an error
ActorFails(num_bits, scheme, data_type) ==
    \/ ~(num_bits > 0)
    \/ Selected(num_bits, scheme, data_type) = "4bit" /\ data_type \notin MappedTags

ActorRow(row, num_bits, scheme, quantile, data_type, full_range) ==
    LET codec == Selected(num_bits, scheme, data_type)
    IN  IF codec = "4bit" THEN Row4bit(row, quantile, data_type)
        ELSE IF codec = "sym" THEN SymRow(row, num_bits, quantile, full_range)
        ELSE AsymRow(row, num_bits, quantile)

\* x.type(torch.int8) and x.type(torch.uint8) of a float holding an integer;
\* the cast of a NaN is whatever the build gives, nan_as
CastInt8(x, nan_as) ==
    IF ~IsFinite(x) THEN nan_as ELSE ((x[1] + 128) % 256) - 128
CastUint8(x, nan_as) ==
    IF ~IsFinite(x) THEN nan_as % 256 ELSE x[1] % 256

(***************************************************************************)
(* quant_weight: the group partitioner.                                    *)
(***************************************************************************)
\* a reshape that takes the elements of M column by column
ReshapeByColumns(M, C2) ==
    [k \in 1..((NRows(M) * NCols(M)) \div C2) |->
        [j \in 1..C2 |->
            M[(((k - 1) * C2 + (j - 1)) % NRows(M)) + 1]
             [(((k - 1) * C2 + (j - 1)) \div NRows(M)) + 1]]]

\* M.reshape(-1, C2): the elements of M row by row, cut into rows of C2
Reshape(M, C2) ==
    LET C == NCols(M)
    IN  [k \in 1..((NRows(M) * C) \div C2) |->
            [j \in 1..C2 |->
                LET f == (k - 1) * C2 + (j - 1)
                IN  M[(f \div C) + 1][(f % C) + 1]]]

\* M[:, lo:hi]
Columns(M, lo, hi) == [r \in 1..NRows(M) |-> Slice(M[r], lo, hi)]
\* torch.cat([A, B], dim=1)
CatColumns(A, B) == [r \in 1..NRows(A) |-> A[r] \o B[r]]

\* qdq_weight_actor on the rows of G, a = the arguments of quant_weight
ActorRows(G, a) ==
    [k \in 1..NRows(G) |->
        ActorRow(G[k], a.num_bits, a.scheme, a.quantile, a.data_type, a.full_range)]

\* what the codec returns for return_int=True: integers (uint8 for asym, int8
\* otherwise), a column of scales, a column of zero points or None
IntOf(res, a) ==
    LET asym == Selected(a.num_bits, a.scheme, a.data_type) = "asym"
    IN  [ q     |-> [k \in 1..Len(res) |-> [c \in 1..Len(res[k].q) |->
                        IF asym THEN CastUint8(res[k].q[c], a.nan_as)
                        ELSE CastInt8(res[k].q[c], a.nan_as)]],
          scale |-> [k \in 1..Len(res) |-> <<res[k].scale>>],
          zp    |-> IF asym
                    THEN Some([k \in 1..Len(res) |->
                                  <<CastUint8(res[k].zp.val, a.nan_as)>>])
                    ELSE None ]
\* what the codec returns for return_int=False
FloatOf(res) == [k \in 1..Len(res) |-> res[k].deq]

QuantResult(status, q, scale, zp, val) ==
    [status |-> status, q |-> q, scale |-> scale, zp |-> zp, val |-> val]

\* quant_weight, lines 221-224: the integers of one group per row
QuantWholeInt(i) == QuantResult("ok", i.q, i.scale, i.zp, <<>>)

QuantWholeOf(res, a) ==
    IF a.return_int THEN QuantWholeInt(IntOf(res, a))
    ELSE QuantResult("ok", <<>>, <<>>, None, FloatOf(res))

\* quant_weight, lines 219-228: one group per row
QuantWhole(a) == QuantWholeOf(ActorRows(a.weight, a), a)

\* quant_weight, lines 237-247: the integers back in the shape of the weight
QuantDivisibleInt(i, C, group_size) ==
    QuantResult("ok", Reshape(i.q, C), Reshape(i.scale, C \div group_size),
                IF i.zp.some THEN Some(Reshape(i.zp.val, C \div group_size)) ELSE None,
                <<>>)

QuantDivisibleOf(res, a) ==
    IF a.return_int THEN QuantDivisibleInt(IntOf(res, a), NCols(a.weight), a.group_size)
    ELSE QuantResult("ok", <<>>, <<>>, None, Reshape(FloatOf(res), NCols(a.weight)))

\* quant_weight, lines 230-251: the row length is a multiple of group_size
QuantDivisible(a) == QuantDivisibleOf(ActorRows(Reshape(a.weight, a.group_size), a), a)

\* quant_weight, lines 256-293: the two parts joined
QuantSplitInt(i1, i2, split_index, group_size) ==
    QuantResult("ok",
        CatColumns(Reshape(i1.q, split_index), i2.q),
        CatColumns(Reshape(i1.scale, split_index \div group_size), i2.scale),
        IF i2.zp.some
        THEN Some(CatColumns(Reshape(i1.zp.val, split_index \div group_size), i2.zp.val))
        ELSE None,
        <<>>)

QuantSplitOf(res1, res2, split_index, a) ==
    IF a.return_int
    THEN QuantSplitInt(IntOf(res1, a), IntOf(res2, a), split_index, a.group_size)
    ELSE QuantResult("ok", <<>>, <<>>, None,
             CatColumns(Reshape(FloatOf(res1), split_index), FloatOf(res2)))

\* quant_weight, lines 254-283: the codec on the full groups and on the rest
QuantSplitAt(a, split_index) ==
    QuantSplitOf(ActorRows(Reshape(Columns(a.weight, 0, split_index), a.group_size), a),
                 ActorRows(Columns(a.weight, split_index, NCols(a.weight)), a),
                 split_index, a)

\* quant_weight, lines 252-297: full groups, then the remainder as one group
QuantSplit(a) == QuantSplitAt(a, (NCols(a.weight) \div a.group_size) * a.group_size)

\* quant_weight(weight, num_bits, group_size, scheme, quantile, data_type,
\* return_int, full_range); status "passthrough" is line 218, the weight
\* returned as it came
QuantWeight(a) ==
    IF a.num_bits <= 0 THEN QuantResult("passthrough", <<>>, <<>>, None, a.weight)
    ELSE IF ActorFails(a.num_bits, a.scheme, a.data_type)
    THEN QuantResult("error", <<>>, <<>>, None, <<>>)
    ELSE IF a.group_size = -1 \/ NCols(a.weight) < a.group_size THEN QuantWhole(a)
    ELSE IF NCols(a.weight) % a.group_size = 0 THEN QuantDivisible(a)
    ELSE QuantSplit(a)

(***************************************************************************)
(* search_clip: the grid search for the clip quantile.                     *)
(***************************************************************************)
n_grid == 200
max_shrink == Rat(1, 5)
\* int(max_shrink * n_grid)
Iterations == LET p == RMul(max_shrink, RInt(n_grid)) IN p[1] \div p[2]

\* (org_weight - cur_weight).float().pow(2).mean().item()
RECURSIVE SquaredErrors(_, _, _)
SquaredErrors(A, B, f) ==
    IF f = 0 THEN RInt(0)
    ELSE LET r == ((f - 1) \div NCols(A)) + 1
             c == ((f - 1) % NCols(A)) + 1
             d == RSub(A[r][c], B[r][c])
         IN  RAdd(SquaredErrors(A, B, f - 1), RMul(d, d))
MeanSquaredError(A, B) ==
    RDiv(SquaredErrors(A, B, NRows(A) * NCols(A)), RInt(NRows(A) * NCols(A)))

\* is_best = loss < best_error, line 334
IsBest(loss, best_error) == RLess(loss, best_error)

\* search_clip, lines 314-320: the locals before the loop; m = the weight and
\* the arguments of the call
ClipStart(m) ==
    [ weight |-> m.weight, num_bits |-> m.num_bits, group_size |-> m.group_size,
      scheme |-> m.scheme, data_type |-> m.data_type,
      enable_full_range |-> m.enable_full_range,
      i_s |-> 0, best_error |-> RInf, best_clip_ratio |-> None,
      ratios |-> <<>>, history |-> <<>>, pc |-> "loop", ret |-> None ]

\* search_clip, lines 333-337: the best loss and ratio after a pass
ClipUpdate(l, ratio, loss) ==
    [l EXCEPT !.i_s = l.i_s + 1,
              !.ratios = Append(l.ratios, ratio),
              !.history = Append(l.history, loss),
              !.best_error = IF IsBest(loss, l.best_error) THEN loss ELSE l.best_error,
              !.best_clip_ratio = IF IsBest(loss, l.best_error) THEN Some(ratio)
                                  ELSE l.best_clip_ratio]

\* search_clip, lines 331-332: the loss of the pass
ClipIterOf(l, ratio, cur_weight) ==
    IF cur_weight.status = "error" THEN [l EXCEPT !.pc = "error"]
    ELSE ClipUpdate(l, ratio, MeanSquaredError(l.weight, cur_weight.val))

\* search_clip, lines 323-330: the weight quantized with quantile = ratio
ClipIterAt(l, ratio) ==
    ClipIterOf(l, ratio,
               QuantWeight([ weight |-> l.weight, num_bits |-> l.num_bits,
                             group_size |-> l.group_size, scheme |-> l.scheme,
                             quantile |-> ratio, data_type |-> l.data_type,
                             return_int |-> FALSE,
                             full_range |-> l.enable_full_range, nan_as |-> 0 ]))

\* search_clip, lines 322-337: one pass of the loop
ClipIter(l) == ClipIterAt(l, RSub(RInt(1), Rat(l.i_s, n_grid)))

\* search_clip, lines 338-340: the loop is over, best_clip_ratio is returned
ClipEnd(l) == [l EXCEPT !.pc = "done", !.ret = l.best_clip_ratio]

\* search_clip as one call
RECURSIVE ClipRun(_)
ClipRun(l) ==
    IF l.pc # "loop" THEN l
    ELSE IF l.i_s < Iterations THEN ClipRun(ClipIter(l))
    ELSE ClipEnd(l)
SearchClip(m) == ClipRun(ClipStart(m))

(***************************************************************************)
(* Storage words: a word of width w is the set of the positions 0..w-1 of  *)
(* its two's complement bits that are 1.                                   *)
(***************************************************************************)
\* bit k of the two's complement of v (|v| <= 2^16)
BitOf(v, k) == IF k <= 16 THEN ((v + 65536) \div Pow2(k)) % 2 = 1 ELSE v < 0

\* tensor.type(compressed_dtype): value v as a word of width w
ToWord(v, w) == {k \in 0..(w - 1) : BitOf(v, k)}

ZeroWord == {}
WordAnd(x, y) == x \cap y
WordOr(x, y) == x \cup y
\* x << s: the bits shifted out at the top are lost
WordShl(x, s, w) == {k + s : k \in {i \in x : i + s <= w - 1}}
\* x >> s that shifts zeros in, as on an unsigned word
WordShr(x, s, w) == {k - s : k \in {i \in x : i >= s}}

\* x >> s on a signed word: the sign bit is replicated
WordSar(x, s, w) ==
    {k - s : k \in {i \in x : i >= s}} \cup (IF (w - 1) \in x THEN (w - s)..(w - 1) ELSE {})

\* tensor.type(torch.int8): the low 8 bits, read as a signed byte
ToInt8(x) ==
    LET b(k) == IF k \in x THEN 1 ELSE 0
    IN  b(0) + 2 * b(1) + 4 * b(2) + 8 * b(3) + 16 * b(4) + 32 * b(5) + 64 * b(6)
        - 128 * b(7)

\* torch.tensor(2**bits - 1, dtype=compressed_dtype) raises when the value
\* does not fit the signed dtype
MaskFits(bits, w) == bits < w
Mask(bits, w) == {k \in 0..(w - 1) : k < bits}

(***************************************************************************)
(* WeightOnlyLinear: the bit-packing store.                                *)
(***************************************************************************)
\* __init__ raises (assertions, KeyError of FLOAT_MAPPING, division by n_pack = 0)
ConstructOK(c) ==
    /\ HasInt(c.dtype) \/ c.dtype \in MappedTags
    /\ c.compress_bits \in {8, 16, 32, 64}
    /\ c.compression_dim \in {0, 1}
    /\ c.bits > 0
    /\ c.compress_bits \div c.bits > 0

\* a scale buffer that is allocated but not zeroed
ScaleUnset(R, C) == Fill(R, C, RNaN)

\* __init__, lines 391-397: the scale buffer, torch.zeros
ScaleBuffer(R, C) == Fill(R, C, RInt(0))

\* __init__: zero-filled buffers at the shapes the parameters give
Construct(c) ==
    LET gs     == IF c.groupsize # -1 THEN c.groupsize ELSE c.in_features
        n_pack == c.compress_bits \div c.bits
        zero   == ZeroWord
    IN  [ dtype           |-> c.dtype,
          in_features     |-> c.in_features,
          out_features    |-> c.out_features,
          bits            |-> c.bits,
          groupsize       |-> gs,
          compression_dim |-> c.compression_dim,
          compress_bits   |-> c.compress_bits,
          n_pack          |-> n_pack,
          scale           |-> ScaleBuffer(c.out_features, CeilDiv(c.in_features, gs)),
          packed_weight   |->
              IF c.compression_dim = 1
              THEN Fill(c.out_features, CeilDiv(c.in_features, n_pack), zero)
              ELSE Fill(CeilDiv(c.out_features, n_pack), c.in_features, zero),
          packed_zp       |->
              IF ~c.zp THEN None
              ELSE IF c.compression_dim = 1
              THEN Some(Fill(c.out_features, CeilDiv(c.in_features, gs * n_pack), zero))
              ELSE Some(Fill(CeilDiv(c.out_features, n_pack),
                             CeilDiv(c.in_features, gs), zero)),
          bias            |->
              IF c.bias THEN Some([r \in 1..c.out_features |-> RInt(0)]) ELSE None ]

\* pack, lines 457-460: the fields of one destination word.  Each source
\* integer is masked to `bits` bits, shifted to its position and OR-ed into
\* the word as it stands.
RECURSIVE PackFields(_, _, _, _, _)
PackFields(word, vals, e, bits, w) ==
    IF e >= Len(vals) THEN word
    ELSE PackFields(
             WordOr(word, WordShl(WordAnd(ToWord(vals[e + 1], w), Mask(bits, w)), bits * e, w)),
             vals, e + 1, bits, w)

\* pack, lines 453-460 (and 471-478): every destination column j takes the
\* source columns n_pack*j .. n_pack*(j+1)-1 that exist
PackInto(P, X, n_pack, bits, w) ==
    [r \in 1..NRows(P) |->
        [j \in 1..NCols(P) |->
            PackFields(P[r][j], Slice(X[r], n_pack * (j - 1), n_pack * j), 0, bits, w)]]

\* an in-place tensor operation broadcasts a one-row operand over the rows
Broadcast(Z, R) == IF NRows(Z) = R THEN Z ELSE [r \in 1..R |-> Z[1]]

PackResult(st, status, err) == [store |-> st, status |-> status, err |-> err]

\* pack, lines 464-480: the zero points, st being the store after the weights
PackZp(st, zp) ==
    LET dim0 == st.compression_dim = 0
        Z    == IF dim0 THEN Transpose(zp) ELSE zp
    IN  IF ~st.packed_zp.some
        THEN PackResult(st, "error", IF dim0 THEN "AttributeError" ELSE "zp is not set")
        ELSE LET PZ == IF dim0 THEN Transpose(st.packed_zp.val) ELSE st.packed_zp.val
                 s1 == [st EXCEPT !.packed_zp = Some(PZ)]
             IN  IF NRows(Z) # NRows(PZ) /\ NRows(Z) # 1
                 THEN PackResult(s1, "error", "shape")
                 ELSE LET PZ2 == PackInto(PZ, Broadcast(Z, NRows(PZ)),
                                          st.n_pack, st.bits, st.compress_bits)
                      IN  PackResult(
                              [st EXCEPT !.packed_zp =
                                   Some(IF dim0 THEN Transpose(PZ2) ELSE PZ2)],
                              "ok", "")

\* pack(int_weight, scale, zp, bias), a = the arguments
Pack(st, a) ==
    LET dim0 == st.compression_dim = 0
        s1   == IF a.bias.some THEN [st EXCEPT !.bias = a.bias] ELSE st
        s2   == [s1 EXCEPT !.scale = a.scale]
        X    == IF dim0 THEN Transpose(a.int_weight) ELSE a.int_weight
        P    == IF dim0 THEN Transpose(s2.packed_weight) ELSE s2.packed_weight
        s3   == [s2 EXCEPT !.packed_weight = P]
    IN  IF Shape(a.scale) # Shape(st.scale)
        THEN PackResult(s1, "error", "Scale shape is mismatched")
        ELSE IF NRows(X) # NRows(P)
        THEN PackResult(s3, "error", "output channels mismatch")
        ELSE IF ~MaskFits(st.bits, st.compress_bits)
        THEN PackResult(s3, "error", "overflow")
        ELSE LET P2 == PackInto(P, X, st.n_pack, st.bits, st.compress_bits)
                 s4 == [s3 EXCEPT !.packed_weight = IF dim0 THEN Transpose(P2) ELSE P2]
             IN  IF a.zp.some THEN PackZp(s4, a.zp.val) ELSE PackResult(s4, "ok", "")

\* recover, lines 500-502: field e of a packed word, sign-extended
ExtractField(word, e, bits, w) ==
    WordSar(WordShl(word, w - bits * (e + 1), w), w - bits, w)

\* the word of the buffer had the shifts of lines 500-502 been made in place
WordShiftedInPlace(word, e, bits, w) == ExtractField(word, e, bits, w)

\* recover, lines 500-502: the word of the store's buffer after field e was
\* read from it; the shifts build new tensors, the buffer keeps its word
WordAfterExtract(word, e, bits, w) == word

\* recover, lines 495-505 can assign the packed rows to the rows of weight
UnpackFits(st) ==
    LET PW == IF st.compression_dim = 0 THEN Transpose(st.packed_weight)
              ELSE st.packed_weight
        R  == IF st.compression_dim = 0 THEN st.in_features ELSE st.out_features
    IN  NRows(PW) = R \/ NRows(PW) = 1

\* recover, lines 485-507: the unpacked int8 matrix, (out_features, in_features)
Unpack(st) ==
    LET dim0 == st.compression_dim = 0
        PW0  == IF dim0 THEN Transpose(st.packed_weight) ELSE st.packed_weight
        R    == IF dim0 THEN st.in_features ELSE st.out_features
        C    == IF dim0 THEN st.out_features ELSE st.in_features
        PW   == Broadcast(PW0, R)
        W    == [r \in 1..R |-> [c \in 1..C |->
                    IF (c - 1) \div st.n_pack < NCols(PW)
                    THEN ToInt8(ExtractField(PW[r][(c - 1) \div st.n_pack + 1],
                                             (c - 1) % st.n_pack, st.bits,
                                             st.compress_bits))
                    ELSE 0]]
    IN  IF dim0 THEN Transpose(W) ELSE W

\* the mapping read as if the index list were -8..7 in table order
Int2FloatByOffset(t, k) ==
    IF k + 9 > Len(FLOAT_MAPPING(t)) THEN RInt(0) ELSE FLOAT_MAPPING(t)[k + 9]

\* recover, lines 508-512: the float a code index stands for, 0 for no index
Int2Float(t, k) ==
    LET ints   == INT_MAPPING(t)
        floats == FLOAT_MAPPING(t)
        hits   == {i \in 1..Min(Len(ints), Len(floats)) : ints[i] = k}
    IN  IF hits = {} THEN RInt(0) ELSE floats[CHOOSE i \in hits : \A h \in hits : h <= i]

\* recover, lines 515-528: the column of scale that multiplies column c (from 1)
ScaleColumn(st, c) ==
    IF st.in_features % st.groupsize # 0
    THEN LET split_index == (st.in_features \div st.groupsize) * st.groupsize
         IN  IF c <= split_index THEN (c - 1) \div st.groupsize + 1
             ELSE NCols(st.scale)
    ELSE (c - 1) \div st.groupsize + 1

\* recover(): [status, weight (the unpacked integers), val (the float matrix)]
Recover(st) ==
    IF ~MaskFits(st.bits, st.compress_bits) \/ ~UnpackFits(st)
    THEN [status |-> "error", weight |-> <<>>, val |-> <<>>]
    ELSE LET weight == Unpack(st)
             mapped == [r \in 1..st.out_features |-> [c \in 1..st.in_features |->
                           IF HasInt(st.dtype) THEN RInt(weight[r][c])
                           ELSE Int2Float(st.dtype, weight[r][c])]]
         IN  [ status |-> "ok",
               weight |-> weight,
               val    |-> [r \in 1..st.out_features |-> [c \in 1..st.in_features |->
                              RMul(mapped[r][c], st.scale[r][ScaleColumn(st, c)])]] ]

\* recover: the store after the call (the reads leave every buffer as it is)
AfterRecover(st) ==
    LET dim0 == st.compression_dim = 0
        PW   == IF dim0 THEN Transpose(st.packed_weight) ELSE st.packed_weight
        PW2  == [r \in 1..NRows(PW) |-> [j \in 1..NCols(PW) |->
                    WordAfterExtract(PW[r][j], st.n_pack - 1, st.bits, st.compress_bits)]]
    IN  IF ~MaskFits(st.bits, st.compress_bits) THEN st
        ELSE [st EXCEPT !.packed_weight = IF dim0 THEN Transpose(PW2) ELSE PW2]

\* F.linear for one output: the dot product of x and a row of the weight
RECURSIVE Dot(_, _, _)
Dot(x, row, c) ==
    IF c = 0 THEN RInt(0) ELSE RAdd(Dot(x, row, c - 1), RMul(RInt(x[c]), row[c]))

ForwardOf(st, x, rec) ==
    IF rec.status # "ok" THEN [status |-> "error", rec |-> rec, out |-> <<>>]
    ELSE [ status |-> "ok",
           rec    |-> rec,
           out    |-> [r \in 1..st.out_features |->
                          IF st.bias.some
                          THEN RAdd(Dot(x, rec.val[r], st.in_features), st.bias.val[r])
                          ELSE Dot(x, rec.val[r], st.in_features)] ]

\* forward, lines 531-534: F.linear(input, recover(), bias) for one input row
Forward(st, x) == ForwardOf(st, x, Recover(st))

(***************************************************************************)
(* rtn_quantize: the driver.  d holds the arguments of the call and the    *)
(* locals of the loop: num_bits, group_size, scheme and quantile are the   *)
(* function's own variables, which the loop rebinds.                       *)
(***************************************************************************)
\* rtn_quantize, lines 598-602: the four variables after the lookup of the
\* layer's name in weight_config
Overridden(d, name) ==
    IF name \in DOMAIN d.weight_config
    THEN LET cfg == d.weight_config[name]
         IN  [ num_bits |-> cfg.bits, group_size |-> cfg.group_size,
               scheme |-> cfg.scheme,
               quantile |-> IF cfg.quantile.some THEN cfg.quantile ELSE Some(RInt(1)) ]
    ELSE [ num_bits |-> d.num_bits, group_size |-> d.group_size, scheme |-> d.scheme,
           quantile |-> d.quantile ]

\* rtn_quantize, lines 614-615: quantile after the optional clip search
Searched(d, m, v) ==
    IF d.enable_mse_search
    THEN SearchClip([ weight |-> m.weight, num_bits |-> v.num_bits,
                      group_size |-> v.group_size, scheme |-> v.scheme,
                      data_type |-> d.data_type,
                      enable_full_range |-> d.enable_full_range ])
    ELSE [pc |-> "done", ret |-> v.quantile]

\* rtn_quantize, lines 616-629 and 649-657: the call of quant_weight
DriverQuant(d, m, v, quantile) ==
    QuantWeight([ weight |-> IF d.group_dim = 0 THEN Transpose(m.weight) ELSE m.weight,
                  num_bits |-> v.num_bits, group_size |-> v.group_size,
                  scheme |-> v.scheme, quantile |-> quantile,
                  data_type |-> d.data_type, return_int |-> d.return_int,
                  full_range |-> d.enable_full_range, nan_as |-> 0 ])

\* rtn_quantize, lines 630-640: the arguments of WeightOnlyLinear
DriverStore(d, m, v, qr) ==
    [ in_features |-> NCols(m.weight), out_features |-> NRows(m.weight),
      bits |-> v.num_bits, groupsize |-> v.group_size, dtype |-> d.data_type,
      zp |-> qr.zp.some, bias |-> m.bias.some, compress_bits |-> d.compress_bits,
      compression_dim |-> d.compression_dim ]

\* rtn_quantize, lines 627-629 and 643: the arguments of pack
DriverPack(d, m, qr) ==
    [ int_weight |-> IF d.group_dim = 0 THEN Transpose(qr.q) ELSE qr.q,
      scale |-> IF d.group_dim = 0 THEN Transpose(qr.scale) ELSE qr.scale,
      zp |-> IF d.group_dim = 0 /\ qr.zp.some THEN Some(Transpose(qr.zp.val)) ELSE qr.zp,
      bias |-> m.bias ]

PackedModule(p) == [status |-> p.status, module |-> Some(p.store)]

\* rtn_quantize, lines 617-643: the store built for layer m and packed
IntPath(d, m, v, qr) ==
    IF qr.status # "ok" \/ ~ConstructOK(DriverStore(d, m, v, qr))
    THEN [status |-> "error", module |-> None]
    ELSE PackedModule(Pack(Construct(DriverStore(d, m, v, qr)), DriverPack(d, m, qr)))

\* rtn_quantize, lines 649-659: the layer's weight replaced by its fake
\* quantization
FloatPath(d, qr) ==
    IF qr.status = "error" THEN [status |-> "error", module |-> None]
    ELSE [ status |-> "ok",
           module |-> Some(IF d.group_dim = 0 THEN Transpose(qr.val) ELSE qr.val) ]

\* rtn_quantize, lines 598-602: the function's variables after the lookup
Rebound(d, v, quantile) ==
    [d EXCEPT !.num_bits = v.num_bits, !.group_size = v.group_size,
              !.scheme = v.scheme, !.quantile = quantile]

\* rtn_quantize, lines 643-647 and 659: the layer is replaced, or the new
\* module returned when the model is the layer itself
LayerDone(d, m, v, quantile, r) ==
    [Rebound(d, v, quantile) EXCEPT
        !.idx = d.idx + 1,
        !.done = Append(d.done,
                    [ name |-> m.name, num_bits |-> v.num_bits,
                      group_size |-> v.group_size, scheme |-> v.scheme,
                      quantile |-> quantile, status |-> r.status,
                      module |-> r.module ]),
        !.layers[d.idx] =
            IF r.status # "ok" \/ (d.return_int /\ m.name = 0) THEN m
            ELSE IF d.return_int
            THEN \* set_module, line 647
                 [m EXCEPT !.kind = "WeightOnlyLinear", !.packed = r.module]
            ELSE \* m.weight.data.copy_, line 659
                 [m EXCEPT !.weight = r.module.val],
        !.ret = IF r.status = "ok" /\ d.return_int /\ m.name = 0 THEN r.module ELSE None,
        !.pc = IF r.status # "ok" THEN "error"
               ELSE IF d.return_int /\ m.name = 0 THEN "done"
               ELSE "loop"]

\* rtn_quantize, lines 616-659: the layer quantized with the quantile s gave
LayerQuantized(d, m, v, quantile, qr) ==
    LayerDone(d, m, v, quantile,
              IF d.return_int THEN IntPath(d, m, v, qr) ELSE FloatPath(d, qr))

\* rtn_quantize, lines 614-615: search_clip raised, or returned the None
\* quant_weight raises on
LayerSearched(d, m, v, s) ==
    IF s.pc # "done" \/ ~s.ret.some
    THEN [Rebound(d, v, IF s.pc = "done" THEN s.ret ELSE v.quantile) EXCEPT
             !.pc = "error"]
    ELSE LayerQuantized(d, m, v, s.ret, DriverQuant(d, m, v, s.ret.val))

LayerOf(d, m, v) == LayerSearched(d, m, v, Searched(d, m, v))

\* rtn_quantize, lines 596-659: the body of the loop for layer d.idx
LayerStep(d) ==
    IF d.layers[d.idx].kind # "Linear" THEN [d EXCEPT !.idx = d.idx + 1]
    ELSE LayerOf(d, d.layers[d.idx], Overridden(d, d.layers[d.idx].name))

(***************************************************************************)
(* The store's life: constructed, then any of pack, recover and forward.   *)
(***************************************************************************)
\* the parameters the stores of the model are constructed with
StoreConfigs ==
    { c \in [ in_features : 1..MaxIn, out_features : 1..MaxOut,
              bits : {4}, groupsize : {-1, 2}, dtype : {"int"},
              zp : BOOLEAN, bias : BOOLEAN, compress_bits : {8},
              compression_dim : {0, 1} ] : ConstructOK(c) }

\* an R x C matrix filled row by row with the values of pat, repeated
PatMatrix(R, C, pat) ==
    [r \in 1..R |-> [c \in 1..C |-> pat[(((r - 1) * C + (c - 1)) % Len(pat)) + 1]]]

\* the arguments of the pack calls of the model: a matrix of `bits`-bit signed
\* integers holding v and its complement, a scale, and by `kind` a bias, zero
\* points and shapes that differ from the store's
PackCalls(bits) ==
    { <<"plain", -Pow2(bits - 1)>>, <<"plain", -1>>, <<"bias", -1>>,
      <<"zp", -Pow2(bits - 1)>>, <<"scale_cols", -Pow2(bits - 1)>>, <<"rows", -1>>,
      <<"zp_cols", -Pow2(bits - 1)>>, <<"zp_rows", -1>> }

PackArgs(st, v, kind) ==
    LET G == CeilDiv(st.in_features, st.groupsize)
    IN  [ int_weight |-> PatMatrix(st.out_features + (IF kind = "rows" THEN 1 ELSE 0),
                                   st.in_features, <<v, -v - 1>>),
          scale      |-> [r \in 1..st.out_features |->
                            [g \in 1..(G + (IF kind = "scale_cols" THEN 1 ELSE 0)) |->
                                Rat(Abs(v) + r + 2 * (g - 1), 2)]],
          zp         |-> IF kind \in {"zp", "zp_cols", "zp_rows"}
                         THEN Some(PatMatrix(
                                  st.out_features + (IF kind = "zp_rows" THEN 1 ELSE 0),
                                  G + (IF kind = "zp_cols" THEN 1 ELSE 0),
                                  <<Pow2(st.bits) - 1, 1>>))
                         ELSE None,
          bias       |-> IF kind \in {"bias", "zp", "scale_cols", "rows"}
                         THEN Some([r \in 1..st.out_features |-> Rat(v, 2)])
                         ELSE None ]

NoResult ==
    [op |-> "init", status |-> "ok", err |-> "", weight |-> <<>>, val |-> <<>>, out |-> <<>>]

Idle ==
    /\ cin = None /\ cout = None /\ clip = None /\ drv = None

Init ==
    /\ \E c \in StoreConfigs : store = Construct(c)
    /\ result = NoResult
    /\ lastPack = None
    /\ lastRec = None
    /\ npacks = 0
    /\ nok = 0
    /\ Idle

DoPack ==
    /\ npacks < MaxPacks
    /\ \E call \in PackCalls(store.bits) :
          LET a == PackArgs(store, call[2], call[1])
              p == Pack(store, a)
          IN  /\ store' = p.store
              /\ result' = [NoResult EXCEPT !.op = "pack", !.status = p.status,
                                            !.err = p.err]
              /\ lastPack' = Some(a)
              /\ nok' = IF p.status = "ok" THEN nok + 1 ELSE nok
    /\ lastRec' = None
    /\ npacks' = npacks + 1
    /\ UNCHANGED <<cin, cout, clip, drv>>

DoRecover ==
    /\ LET r == Recover(store)
       IN  /\ result' = [NoResult EXCEPT !.op = "recover", !.status = r.status,
                                         !.weight = r.weight, !.val = r.val]
           /\ lastRec' = IF r.status = "ok" THEN Some(r.val) ELSE lastRec
    /\ store' = AfterRecover(store)
    /\ UNCHANGED <<lastPack, npacks, nok, cin, cout, clip, drv>>

DoForward ==
    /\ \E x \in {[c \in 1..store.in_features |-> c - 2]} :
          LET f == Forward(store, x)
          IN  result' = [NoResult EXCEPT !.op = "forward", !.status = f.status,
                                         !.weight = f.rec.weight, !.val = f.rec.val,
                                         !.out = f.out]
    /\ store' = AfterRecover(store)
    /\ UNCHANGED <<lastPack, lastRec, npacks, nok, cin, cout, clip, drv>>

Next == DoPack \/ DoRecover \/ DoForward

Spec == Init /\ [][Next]_vars

(***************************************************************************)
(* Packing alone: stores of every storage width and bit width, packed once *)
(* with a matrix of the store's shape and then recovered.                  *)
(***************************************************************************)
PackingConfigs ==
    { c \in [ in_features : 1..MaxIn, out_features : 1..MaxOut,
              bits : {2, 3, 4, 8, 16}, groupsize : {-1, 2},
              dtype : {"int", "nf4", "fp4", "fp4_e2m1_bnb", "fp4_e2m1"},
              zp : {FALSE}, bias : {FALSE}, compress_bits : {8, 16, 32, 64},
              compression_dim : {0, 1} ] :
        /\ ConstructOK(c)
        /\ c.dtype # "int" => (c.bits = 4 /\ c.compress_bits \in {8, 32})
        /\ c.groupsize # -1 => (c.bits = 4 /\ c.compress_bits \in {8, 32}) }

InitPacking ==
    /\ \E c \in PackingConfigs : store = Construct(c)
    /\ result = NoResult
    /\ lastPack = None
    /\ lastRec = None
    /\ npacks = 0
    /\ nok = 0
    /\ Idle

PackOnce ==
    /\ npacks = 0
    /\ \E v \in {-Pow2(store.bits - 1), -1, 1} :
          LET a == PackArgs(store, v, "plain")
              p == Pack(store, a)
          IN  /\ store' = p.store
              /\ result' = [NoResult EXCEPT !.op = "pack", !.status = p.status,
                                            !.err = p.err]
              /\ lastPack' = Some(a)
              /\ nok' = IF p.status = "ok" THEN nok + 1 ELSE nok
    /\ lastRec' = None
    /\ npacks' = npacks + 1
    /\ UNCHANGED <<cin, cout, clip, drv>>

NextPacking == PackOnce \/ DoRecover

SpecPacking == InitPacking /\ [][NextPacking]_vars

(***************************************************************************)
(* Properties of the store.                                                *)
(***************************************************************************)
\* a store constructed with the parameters of st, never packed
FreshLike(st) ==
    Construct([ in_features |-> st.in_features, out_features |-> st.out_features,
                bits |-> st.bits, groupsize |-> st.groupsize, dtype |-> st.dtype,
                zp |-> st.packed_zp.some, bias |-> st.bias.some,
                compress_bits |-> st.compress_bits,
                compression_dim |-> st.compression_dim ])

RecoveredAfterOnePack == result.op = "recover" /\ npacks = 1 /\ lastPack.some

\* C2 (as amended): for bits in 1..8 below the storage width, every storage
\* width, both compression dimensions and every matrix of `bits`-bit signed
\* integers, the integers recover() unpacks from a store packed once equal the
\* packed matrix, sign included.
C2_LosslessUpTo8Bits ==
    (RecoveredAfterOnePack /\ store.bits <= 8 /\ store.bits < store.compress_bits)
        => (result.status = "ok" /\ result.weight = lastPack.val.int_weight)

\* C2 witness: a negative value recovered from a second, partly filled word
C2_Witness ==
    /\ RecoveredAfterOnePack
    /\ result.status = "ok"
    /\ store.compression_dim = 1 /\ store.n_pack = 2 /\ store.in_features = 3
    /\ lastPack.val.int_weight[1][3] < 0
    /\ result.weight = lastPack.val.int_weight

\* C2 as stated: the same for every bits value
C2_LosslessEveryBits ==
    RecoveredAfterOnePack
        => (result.status = "ok" /\ result.weight = lastPack.val.int_weight)

C3_RepackOverwrites ==
    (result.op = "pack" /\ npacks = 2 /\ nok = 2)
        => LET f == Pack(FreshLike(store), lastPack.val).store
           IN  /\ store.packed_weight = f.packed_weight
               /\ store.packed_zp = f.packed_zp
               /\ store.scale = f.scale
               /\ Recover(store).val = Recover(f).val

\* C4: a recover or forward call leaves the store as it was, and returns the
\* matrix the earlier recover calls since the last pack returned.
C4_ReadsKeepStore ==
    [][(DoRecover \/ DoForward)
          => /\ store' = store
             /\ (lastRec.some /\ result'.status = "ok") => result'.val = lastRec.val]_vars

\* C4 witness: a forward call after a recover call on a packed store
C4_Witness ==
    /\ result.op = "forward" /\ result.status = "ok"
    /\ lastRec.some /\ nok >= 1
    /\ result.val = lastRec.val

\* C5 as stated: a pack call whose scale or zero-point shape differs from
\* (out_features, number of groups) fails.
C5_ShapeMismatchFails ==
    (result.op = "pack" /\ lastPack.some
       /\ LET want == <<store.out_features, CeilDiv(store.in_features, store.groupsize)>>
          IN  \/ Shape(lastPack.val.scale) # want
              \/ lastPack.val.zp.some /\ Shape(lastPack.val.zp.val) # want)
        => result.status = "error"

\* the errors of pack's preconditions: the scale shape (lines 440-442), the
\* output channels (line 449) and a zero point for a store without one
\* (lines 467-469)
PreconditionErrors ==
    {"Scale shape is mismatched", "output channels mismatch", "zp is not set",
     "AttributeError"}

\* C18 as stated: a pack call that fails a precondition leaves the store as
\* it was: bias, scale, packed weights (contents and layout) and packed zero
\* points, for both compression dimensions.
C18_FailedPackKeepsStore ==
    [][(DoPack /\ result'.status = "error" /\ result'.err \in PreconditionErrors)
          => /\ store'.bias = store.bias
             /\ store'.scale = store.scale
             /\ store'.packed_weight = store.packed_weight
             /\ store'.packed_zp = store.packed_zp]_vars

(***************************************************************************)
(* The codecs on their own: quant_weight on drawn arguments, then, for the *)
(* integer output, a fresh store packed with it and recovered.             *)
(***************************************************************************)
\* the weight matrices of the model: every shape, filled with a weight x of
\* either sign and a second weight 0 or 1 in turn
Weights ==
    { [r \in 1..R |-> [c \in 1..C |-> RInt(PatMatrix(R, C, <<x, y>>)[r][c])]] :
        R \in 1..MaxOut, C \in 1..MaxIn, x \in -MaxW..MaxW, y \in {0, 1} }

\* the arguments quant_weight is called with; combinations that only repeat
\* another one (full_range without sym, a NaN cast where no NaN arises, the
\* tags other than "int" with the bit widths and schemes they do not affect)
\* are left out
CodecInputs ==
    { a \in [ weight : Weights, num_bits : {0, 1, 2, 4, 8}, group_size : {-1, 1, 2},
              scheme : {"sym", "asym"}, quantile : {RInt(1), Rat(9, 10)},
              data_type : {"int", "nf4", "fp4", "fp4_e2m1_bnb", "fp4_e2m1", "bf16"},
              return_int : BOOLEAN, full_range : BOOLEAN, nan_as : {0, -128} ] :
        /\ a.full_range => a.scheme = "sym"
        /\ ~HasInt(a.data_type) => (a.num_bits \in {4, 8} /\ a.scheme = "asym")
        /\ a.nan_as # 0 => (a.num_bits = 1 /\ a.full_range /\ a.return_int) }

InitCodec ==
    /\ \E a \in CodecInputs : cin = Some(a)
    /\ cout = None
    /\ store = None
    /\ result = NoResult
    /\ lastPack = None
    /\ lastRec = None
    /\ npacks = 0
    /\ nok = 0
    /\ clip = None /\ drv = None

Quantize ==
    /\ cout = None
    /\ cout' = Some(QuantWeight(cin.val))
    /\ UNCHANGED <<store, result, lastPack, lastRec, npacks, nok, cin, clip, drv>>

\* the store rtn_quantize builds for the layer (lines 630-642, with its
\* defaults int32 and compression_dim 1), packed with the integers
PackQuantized ==
    /\ cout.some /\ cout.val.status = "ok" /\ cin.val.return_int
    /\ npacks = 0
    /\ \E dim \in {1} :
          LET c == [ in_features |-> NCols(cin.val.weight),
                     out_features |-> NRows(cin.val.weight),
                     bits |-> cin.val.num_bits, groupsize |-> cin.val.group_size,
                     dtype |-> cin.val.data_type, zp |-> cout.val.zp.some,
                     bias |-> FALSE, compress_bits |-> 32, compression_dim |-> dim ]
              a == [ int_weight |-> cout.val.q, scale |-> cout.val.scale,
                     zp |-> cout.val.zp, bias |-> None ]
          IN  /\ ConstructOK(c)
              /\ LET p == Pack(Construct(c), a)
                 IN  /\ store' = p.store
                     /\ result' = [NoResult EXCEPT !.op = "pack", !.status = p.status,
                                                   !.err = p.err]
                     /\ lastPack' = Some(a)
                     /\ nok' = IF p.status = "ok" THEN nok + 1 ELSE nok
    /\ lastRec' = None
    /\ npacks' = npacks + 1
    /\ UNCHANGED <<cin, cout, clip, drv>>

RecoverQuantized ==
    /\ npacks > 0
    /\ result.op = "pack"
    /\ DoRecover

NextCodec == Quantize \/ PackQuantized \/ RecoverQuantized

SpecCodec == InitCodec /\ [][NextCodec]_vars

(***************************************************************************)
(* Properties of the codecs.                                               *)
(***************************************************************************)
\* the column of the scale and zero-point arrays that holds column c (from 1)
\* of a matrix with C columns
GroupIndex(C, group_size, c) ==
    IF group_size = -1 \/ C < group_size THEN 1 ELSE ((c - 1) \div group_size) + 1

Quantized == cout.some /\ cout.val.status = "ok"
IntQuantized == Quantized /\ cin.val.return_int

\* scale * q (sym) or scale * (q - zero_point) (asym) at row r, column c
Dequantized(r, c) ==
    LET g == GroupIndex(NCols(cin.val.weight), cin.val.group_size, c)
        q == cout.val.q[r][c]
    IN  RMul(cout.val.scale[r][g],
             RInt(IF cout.val.zp.some THEN q - cout.val.zp.val[r][g] ELSE q))

\* C1 as stated: for bits in {2,4,8} and both schemes, recover() on a fresh
\* store packed with the integer output of quant_weight returns scale * q
\* (sym) or scale * (q - zero_point) (asym), element for element.
C1_RoundTripExact ==
    (result.op = "recover" /\ IntQuantized /\ cin.val.data_type = "int"
       /\ cin.val.num_bits \in {2, 4, 8})
        => /\ result.status = "ok"
           /\ \A r \in 1..NRows(cin.val.weight), c \in 1..NCols(cin.val.weight) :
                 result.val[r][c] = Dequantized(r, c)

\* the number of groups of a row of C columns
NumGroups(C, group_size) ==
    IF group_size = -1 \/ C < group_size THEN 1 ELSE CeilDiv(C, group_size)

\* the first column (from 0) of group g (from 1), and the column after its last
GroupStart(C, group_size, g) ==
    IF group_size = -1 \/ C < group_size THEN 0 ELSE (g - 1) * group_size
GroupEnd(C, group_size, g) ==
    IF group_size = -1 \/ C < group_size THEN C ELSE Min(g * group_size, C)

\* the codec applied to the columns of group g of row r alone
GroupAlone(r, g) ==
    IntOf(<<ActorRow(Slice(cin.val.weight[r],
                           GroupStart(NCols(cin.val.weight), cin.val.group_size, g),
                           GroupEnd(NCols(cin.val.weight), cin.val.group_size, g)),
                     cin.val.num_bits, cin.val.scheme, cin.val.quantile,
                     cin.val.data_type, cin.val.full_range)>>, cin.val)

\* column g of row r of the scales and zero points, and the integers of the
\* columns lo+1..hi of row r, are those of `alone`
GroupIs(r, g, lo, hi, alone) ==
    /\ cout.val.scale[r][g] = alone.scale[1][1]
    /\ cout.val.zp.some => cout.val.zp.val[r][g] = alone.zp.val[1][1]
    /\ \A c \in (lo + 1)..hi : cout.val.q[r][c] = alone.q[1][c - lo]

\* C11: when quant_weight(return_int=True) returns, the integers have the shape
\* of the weight, the scales (and the zero points, present exactly for the
\* asymmetric codec) the shape (rows, ceil(row_len/group_size)), one column
\* when group_size is -1 or exceeds row_len; column g of row r of the
\* parameters, and the integers of that group, are what the codec gives on
\* columns [g*group_size, min((g+1)*group_size, row_len)) of row r alone, the
\* remainder being the last group.
C11_GroupsByRow ==
    IntQuantized
        => LET C  == NCols(cin.val.weight)
               R  == NRows(cin.val.weight)
               gs == cin.val.group_size
               G  == NumGroups(C, gs)
           IN  /\ Shape(cout.val.q) = <<R, C>>
               /\ Shape(cout.val.scale) = <<R, G>>
               /\ cout.val.zp.some
                     = (Selected(cin.val.num_bits, cin.val.scheme, cin.val.data_type)
                          = "asym")
               /\ cout.val.zp.some => Shape(cout.val.zp.val) = <<R, G>>
               /\ \A r \in 1..R, g \in 1..G :
                     GroupIs(r, g, GroupStart(C, gs, g), GroupEnd(C, gs, g),
                             GroupAlone(r, g))

\* C11 witness: rows of three columns in groups of two, the remainder of one
\* column in the last column of the scales with a scale of its own
C11_Witness ==
    /\ IntQuantized
    /\ NRows(cin.val.weight) = 2 /\ NCols(cin.val.weight) = 3
    /\ cin.val.group_size = 2
    /\ Shape(cout.val.scale) = <<2, 2>>
    /\ cout.val.scale[2][1] # cout.val.scale[2][2]
    /\ cout.val.scale[1][2] # cout.val.scale[2][2]

\* the codec quant_weight ran
Codec == Selected(cin.val.num_bits, cin.val.scheme, cin.val.data_type)

\* C13: every integer the codecs return lies in its range: q and zero point
\* in [0, 2^bits-1] for the asymmetric codec, q in [-2^(bits-1), 2^(bits-1)-1]
\* for the symmetric codec with bits >= 2 (with or without full_range), and a
\* code index of the family, within [-8, 7], for the non-uniform 4-bit codecs.
C13_IntegersInRange ==
    IntQuantized
        => LET bits == cin.val.num_bits
           IN  /\ \A r \in 1..NRows(cout.val.q), c \in 1..NCols(cout.val.q) :
                     LET q == cout.val.q[r][c]
                     IN  /\ Codec = "asym" => (0 <= q /\ q <= Pow2(bits) - 1)
                         /\ (Codec = "sym" /\ bits >= 2)
                               => (-Pow2(bits - 1) <= q /\ q <= Pow2(bits - 1) - 1)
                         /\ Codec = "4bit"
                               => /\ -8 <= q /\ q <= 7
                                  /\ \E i \in 1..Len(INT_MAPPING(cin.val.data_type)) :
                                        INT_MAPPING(cin.val.data_type)[i] = q
               /\ Codec = "asym"
                     => \A r \in 1..NRows(cout.val.zp.val),
                           g \in 1..NCols(cout.val.zp.val) :
                           /\ 0 <= cout.val.zp.val[r][g]
                           /\ cout.val.zp.val[r][g] <= Pow2(bits) - 1

\* C13 witness: the 4-bit symmetric codec with full_range and a clip quantile
\* returned both ends of its range, -8 and 7, in one matrix
C13_Witness ==
    /\ IntQuantized /\ Codec = "sym" /\ cin.val.num_bits = 4 /\ cin.val.full_range
    /\ cin.val.quantile # RInt(1)
    /\ \E r \in 1..NRows(cout.val.q), c \in 1..NCols(cout.val.q) : cout.val.q[r][c] = -8
    /\ \E r \in 1..NRows(cout.val.q), c \in 1..NCols(cout.val.q) : cout.val.q[r][c] = 7

\* the weights of group g of row r
GroupOf(r, g) ==
    Slice(cin.val.weight[r],
          GroupStart(NCols(cin.val.weight), cin.val.group_size, g),
          GroupEnd(NCols(cin.val.weight), cin.val.group_size, g))

\* wmax of a group: max(|max|, |min|) * quantile, 1 when that is 0
WmaxOf(row) ==
    IF RMul(RMaxOf(RAbs(RowMax(row)), RAbs(RowMin(row))), cin.val.quantile) = RInt(0)
    THEN RInt(1)
    ELSE RMul(RMaxOf(RAbs(RowMax(row)), RAbs(RowMin(row))), cin.val.quantile)

SymFullRangeQuantized == IntQuantized /\ Codec = "sym" /\ cin.val.full_range

Levels(t) == IF t = "nf4" THEN 16 ELSE 15

\* a code table and its index list pair up one to one: equal lengths, floats
\* strictly ascending, indices distinct and within [lo, hi]
Paired(floats, ints, n, lo, hi) ==
    /\ Len(floats) = n /\ Len(ints) = n
    /\ \A i \in 1..(Len(floats) - 1) : RLess(floats[i], floats[i + 1])
    /\ \A i \in 1..Len(ints) : lo <= ints[i] /\ ints[i] <= hi
    /\ \A i, j \in 1..Len(ints) : ints[i] = ints[j] => i = j

\* the float quantize_4bit(return_int=False) uses for the weight at row r,
\* column c: the level of weight / scale, 0 when no level is hit
Representative(r, c, data_type) ==
    LET g == GroupIndex(NCols(cin.val.weight), cin.val.group_size, c)
        b == Bucket(RDiv(cin.val.weight[r][c],
                         Scale4bit(GroupOf(r, g), cin.val.quantile, data_type)),
                    FLOAT_MAPPING(data_type))
    IN  IF b = 0 THEN RInt(0) ELSE FLOAT_MAPPING(data_type)[b]

\* every code quantize_4bit(return_int=True) returned maps, through the
\* store's int-to-float mapping, to the float of the float output
CodesMapBack ==
    \A r \in 1..NRows(cout.val.q), c \in 1..NCols(cout.val.q) :
        Int2Float(cin.val.data_type, cout.val.q[r][c])
            = Representative(r, c, cin.val.data_type)

\* C15 (as amended): the nf4 table has 16 strictly ascending floats paired
\* one to one with 16 distinct code indices in [-8, 7]; the fp4, fp4_e2m1_bnb
\* and fp4_e2m1 tables have 15 strictly ascending floats paired one to one
\* with 15 distinct code indices in [-7, 7]; and every code that
\* quantize_4bit(return_int=True) returns maps through the store's
\* int-to-float mapping to the float quantize_4bit(return_int=False) uses for
\* the same input.
C15_CodesPairWithFloats ==
    (IntQuantized /\ Codec = "4bit")
        => /\ Paired(FLOAT_MAPPING(cin.val.data_type), INT_MAPPING(cin.val.data_type),
                     Levels(cin.val.data_type),
                     IF cin.val.data_type = "nf4" THEN -8 ELSE -7, 7)
           /\ CodesMapBack

\* C15 witness: the fp4 codec returned the codes of its lowest and of its
\* highest level, -5 and 3, in one matrix
C15_Witness ==
    /\ IntQuantized /\ Codec = "4bit" /\ cin.val.data_type = "fp4"
    /\ \E r \in 1..NRows(cout.val.q), c \in 1..NCols(cout.val.q) : cout.val.q[r][c] = -5
    /\ \E r \in 1..NRows(cout.val.q), c \in 1..NCols(cout.val.q) : cout.val.q[r][c] = 3

\* C15 as stated: every family's table has exactly 16 strictly ascending
\* floats paired one to one with 16 distinct code indices in [-8, 7], and the
\* codes map back to the floats of the float output.
C15_SixteenLevels ==
    (IntQuantized /\ Codec = "4bit")
        => /\ Paired(FLOAT_MAPPING(cin.val.data_type), INT_MAPPING(cin.val.data_type),
                     16, -8, 7)
           /\ CodesMapBack

UnsupportedTag(t) == ~HasInt(t) /\ t \notin MappedTags

\* C6 as stated: a request with a non-positive bit width or an unsupported
\* data-type tag ends in an error.
C6_BadRequestFails ==
    (cout.some /\ (cin.val.num_bits <= 0 \/ UnsupportedTag(cin.val.data_type)))
        => cout.val.status = "error"

\* C8 as stated: no scale a codec returns is zero.
C8_ScaleNeverZero ==
    IntQuantized
        => \A r \in 1..NRows(cout.val.scale), g \in 1..NCols(cout.val.scale) :
              cout.val.scale[r][g] # RInt(0)

\* the weights of row r that share column g of the scale array are all zero
ZeroGroup(r, g) ==
    \A c \in 1..NCols(cin.val.weight) :
        GroupIndex(NCols(cin.val.weight), cin.val.group_size, c) = g
            => cin.val.weight[r][c] = RInt(0)

UniformQuantized ==
    IntQuantized /\ Selected(cin.val.num_bits, cin.val.scheme, cin.val.data_type) # "4bit"

\* C9 (as amended): for an all-zero row the asymmetric codec returns the scale
\* 2/(2^bits-1) for every bit width; the symmetric codec forces wmax to 1 and
\* returns 1/(2^(bits-1)-1) for bits >= 2 (1 for bits = 1) without full_range
\* and 1/2^(bits-1) for bits >= 2 with full_range, so exactly 1 only for
\* bits <= 2 without full_range; with full_range and bits = 1 the scale is
\* NaN (1/0 minus twice inf * 0).
C9_ZeroRowScale ==
    UniformQuantized
        => \A r \in 1..NRows(cout.val.scale), g \in 1..NCols(cout.val.scale) :
              ZeroGroup(r, g)
                  => LET bits  == cin.val.num_bits
                         scale == cout.val.scale[r][g]
                     IN  /\ cin.val.scheme = "asym" => scale = Rat(2, Pow2(bits) - 1)
                         /\ (cin.val.scheme = "sym" /\ ~cin.val.full_range /\ bits >= 2)
                                => scale = Rat(1, Pow2(bits - 1) - 1)
                         /\ (cin.val.scheme = "sym" /\ ~cin.val.full_range /\ bits = 1)
                                => scale = RInt(1)
                         /\ (cin.val.scheme = "sym" /\ cin.val.full_range /\ bits >= 2)
                                => scale = Rat(1, Pow2(bits - 1))
                         /\ (cin.val.scheme = "sym" /\ cin.val.full_range /\ bits = 1)
                                => IsNaN(scale)

\* C9 witness: the 4-bit symmetric codec gave an all-zero row the scale 1/7
C9_Witness ==
    /\ UniformQuantized
    /\ cin.val.scheme = "sym" /\ ~cin.val.full_range /\ cin.val.num_bits = 4
    /\ ZeroGroup(1, 1)
    /\ cout.val.scale[1][1] = Rat(1, 7)

\* C9 as stated: for an all-zero row the symmetric codec returns the scale 1
\* and the asymmetric codec 2/(2^bits-1), for every bit width.
C9_ZeroRowScaleOne ==
    UniformQuantized
        => \A r \in 1..NRows(cout.val.scale), g \in 1..NCols(cout.val.scale) :
              ZeroGroup(r, g)
                  => /\ cin.val.scheme = "sym" => cout.val.scale[r][g] = RInt(1)
                     /\ cin.val.scheme = "asym"
                            => cout.val.scale[r][g] = Rat(2, Pow2(cin.val.num_bits) - 1)

(***************************************************************************)
(* search_clip pass by pass.  The arguments keep to the uniform codecs of  *)
(* at most 4 bits, whose losses stay within the integers TLC computes with.*)
(***************************************************************************)
ClipInputs ==
    { m \in [ weight : Weights, num_bits : {1, 2, 4}, group_size : {-1, 2},
              scheme : {"sym", "asym"}, data_type : {"int"},
              enable_full_range : BOOLEAN ] :
        m.enable_full_range => m.scheme = "sym" }

InitClip ==
    /\ \E m \in ClipInputs : clip = Some(ClipStart(m))
    /\ store = None
    /\ result = NoResult
    /\ lastPack = None
    /\ lastRec = None
    /\ npacks = 0
    /\ nok = 0
    /\ cin = None /\ cout = None /\ drv = None

ClipLoop ==
    /\ clip.val.pc = "loop"
    /\ clip.val.i_s < Iterations
    /\ clip' = Some(ClipIter(clip.val))
    /\ UNCHANGED <<store, result, lastPack, lastRec, npacks, nok, cin, cout, drv>>

ClipReturn ==
    /\ clip.val.pc = "loop"
    /\ clip.val.i_s >= Iterations
    /\ clip' = Some(ClipEnd(clip.val))
    /\ UNCHANGED <<store, result, lastPack, lastRec, npacks, nok, cin, cout, drv>>

NextClip == ClipLoop \/ ClipReturn

SpecClip == InitClip /\ [][NextClip]_vars

\* C10 as stated: search_clip ends after its 40 passes over the candidates
\* 1 - i/200, i = 0..39, in that order, and returns the candidate of the
\* smallest loss, the earliest on ties, whose loss is at most that of 1.0.
C10_ReturnsFirstMinimum ==
    (clip.some /\ clip.val.pc = "done")
        => LET l == clip.val
           IN  /\ l.i_s = 40 /\ Len(l.history) = 40
               /\ \A i \in 1..40 : l.ratios[i] = Rat(200 - (i - 1), 200)
               /\ \E i \in 1..40 :
                     /\ \A j \in 1..40 : ~RLess(l.history[j], l.history[i])
                     /\ \A j \in 1..(i - 1) : RLess(l.history[i], l.history[j])
                     /\ l.ret = Some(l.ratios[i])
                     /\ RLeq(l.history[i], l.history[1])

(***************************************************************************)
(* rtn_quantize layer by layer.  A model is a sequence of modules; module  *)
(* k has the name k, and a model that is itself a Linear has the one       *)
(* module of name 0 (the empty name).                                      *)
(***************************************************************************)
LinearA == [ kind |-> "Linear", bias |-> None, packed |-> None,
             weight |-> [r \in 1..MaxOut |-> [c \in 1..MaxIn |->
                           RInt(PatMatrix(MaxOut, MaxIn, <<-2, 1>>)[r][c])]] ]
LinearB == [ kind |-> "Linear", bias |-> Some([r \in 1..1 |-> RInt(1)]), packed |-> None,
             weight |-> <<<<RInt(1), RInt(2)>>>> ]
Activation == [kind |-> "ReLU", bias |-> None, packed |-> None, weight |-> <<>>]

Named(mods, names) == [k \in 1..Len(mods) |-> [name |-> names[k]] @@ mods[k]]

Models ==
    { Named(<<m>>, <<0>>) : m \in {LinearA, LinearB} }
    \cup UNION { { Named(mods, [k \in 1..n |-> k]) :
                     mods \in [1..n -> {LinearA, LinearB, Activation}] } :
                 n \in 1..MaxLayers }

\* the per-layer configurations of the model
LayerConfigs ==
    { [bits |-> 2, group_size |-> 2, scheme |-> "sym", quantile |-> None],
      [bits |-> 4, group_size |-> -1, scheme |-> "asym", quantile |-> Some(Rat(9, 10))] }

WeightConfigs(layers) ==
    LET linear == {layers[k].name : k \in {i \in 1..Len(layers) : layers[i].kind = "Linear"}}
    IN  UNION { [names -> LayerConfigs] : names \in SUBSET linear }

\* the calls of rtn_quantize of the model; the clip search keeps to the tag
\* and the bit widths whose losses stay within the integers TLC computes
\* with, and the tag nf4 to the integer path
DriverCalls ==
    { d \in [ num_bits : {4, 8}, group_size : {-1, 2}, scheme : {"sym", "asym"},
              quantile : {Some(RInt(1)), Some(Rat(4, 5))}, data_type : {"int", "nf4"},
              return_int : BOOLEAN, enable_full_range : {FALSE},
              enable_mse_search : BOOLEAN, group_dim : {0, 1},
              compress_bits : {32}, compression_dim : {1} ] :
        /\ d.enable_mse_search => (d.num_bits <= 4 /\ d.data_type = "int")
        /\ d.data_type = "nf4" => (d.return_int /\ d.quantile = Some(RInt(1))) }

InitDriver ==
    /\ \E call \in DriverCalls, layers \in Models :
          \E wc \in WeightConfigs(layers) :
             drv = Some(call @@ [ layers |-> layers, weight_config |-> wc,
                                  defaults |-> [ num_bits |-> call.num_bits,
                                                 group_size |-> call.group_size,
                                                 scheme |-> call.scheme,
                                                 quantile |-> call.quantile ],
                                  idx |-> 1, done |-> <<>>, ret |-> None,
                                  pc |-> "loop" ])
    /\ store = None
    /\ result = NoResult
    /\ lastPack = None
    /\ lastRec = None
    /\ npacks = 0
    /\ nok = 0
    /\ cin = None /\ cout = None /\ clip = None

DriverLayer ==
    /\ drv.val.pc = "loop"
    /\ drv.val.idx <= Len(drv.val.layers)
    /\ drv' = Some(LayerStep(drv.val))
    /\ UNCHANGED <<store, result, lastPack, lastRec, npacks, nok, cin, cout, clip>>

DriverReturn ==
    /\ drv.val.pc = "loop"
    /\ drv.val.idx > Len(drv.val.layers)
    /\ drv' = Some([drv.val EXCEPT !.pc = "done", !.ret = Some(drv.val.layers)])
    /\ UNCHANGED <<store, result, lastPack, lastRec, npacks, nok, cin, cout, clip>>

NextDriver == DriverLayer \/ DriverReturn

SpecDriver == InitDriver /\ [][NextDriver]_vars

\* C7 as stated: every layer is quantized with its values of weight_config
\* when it is named there and with the defaults of the call when it is not,
\* whatever was processed before it (the quantile when no clip search runs).
C7_LayersIndependent ==
    drv.some =>
        \A k \in 1..Len(drv.val.done) :
            LET e == drv.val.done[k]
                d == drv.val
                want == IF e.name \in DOMAIN d.weight_config
                        THEN LET cfg == d.weight_config[e.name]
                             IN  [ num_bits |-> cfg.bits, group_size |-> cfg.group_size,
                                   scheme |-> cfg.scheme,
                                   quantile |-> IF cfg.quantile.some THEN cfg.quantile
                                                ELSE Some(RInt(1)) ]
                        ELSE d.defaults
            IN  /\ e.num_bits = want.num_bits
                /\ e.group_size = want.group_size
                /\ e.scheme = want.scheme
                /\ ~d.enable_mse_search => e.quantile = want.quantile


\* the weight of the layer the entry e of done was made from (the integer
\* path leaves the weights of the model as they are)
EntryWeight(d, e) == d.layers[IF e.name = 0 THEN 1 ELSE e.name].weight

\* what the driver passed to pack for the entry e
EntryPacked(d, e) ==
    DriverPack(d, [bias |-> None],
               DriverQuant(d, [weight |-> EntryWeight(d, e)], e, e.quantile.val))

\* scale * q, each q with the scale of its group
ScaleTimesQ(a, group_size) ==
    [r \in 1..NRows(a.int_weight) |-> [c \in 1..NCols(a.int_weight) |->
        RMul(RInt(a.int_weight[r][c]),
             a.scale[r][GroupIndex(NCols(a.int_weight), group_size, c)])]]

\* C16 as stated: the store the integer path builds maps code indices to
\* floats in recover() exactly when the non-uniform codec produced its
\* integers, and with a tag other than "int" and num_bits # 4 recover()
\* returns scale * q of the uniform codec.
C16_StoreFollowsCodec ==
    drv.some =>
        \A k \in 1..Len(drv.val.done) :
            (drv.val.return_int /\ drv.val.done[k].status = "ok")
                => /\ ~HasInt(drv.val.done[k].module.val.dtype)
                         = (Selected(drv.val.done[k].num_bits, drv.val.done[k].scheme,
                                     drv.val.data_type) = "4bit")
                   /\ (~HasInt(drv.val.data_type) /\ drv.val.done[k].num_bits # 4)
                         => Recover(drv.val.done[k].module.val).val
                               = ScaleTimesQ(EntryPacked(drv.val, drv.val.done[k]),
                                             drv.val.done[k].group_size)

\* the integers, scales and zero points quant_weight returned for the entry e
EntryQuant(d, e) == DriverQuant(d, [weight |-> EntryWeight(d, e)], e, e.quantile.val)

\* the shape of the scale buffer of the store built for the entry e:
\* (out_features, ceil(in_features / group_size))
EntryScaleShape(d, e) ==
    << NRows(EntryWeight(d, e)),
       CeilDiv(NCols(EntryWeight(d, e)),
               IF e.group_size # -1 THEN e.group_size ELSE NCols(EntryWeight(d, e))) >>

\* C17 as stated: for every layer shape, group_size and group_dim the scale
\* and the zero point the integer path passes to pack have the shape of the
\* new store's scale buffer, and the driver's pack call does not fail.
C17_PackShapesFit ==
    drv.some =>
        \A k \in 1..Len(drv.val.done) :
            (drv.val.return_int /\ EntryQuant(drv.val, drv.val.done[k]).status = "ok")
                => /\ Shape(EntryPacked(drv.val, drv.val.done[k]).scale)
                         = EntryScaleShape(drv.val, drv.val.done[k])
                   /\ EntryPacked(drv.val, drv.val.done[k]).zp.some
                         => Shape(EntryPacked(drv.val, drv.val.done[k]).zp.val)
                               = EntryScaleShape(drv.val, drv.val.done[k])
                   /\ drv.val.done[k].status = "ok"
====
